---- MODULE Spec2Model ----
(***************************************************************************)
(* Model of the compute-module worker (src/computemodule/src/main.rs):     *)
(* the main loop, get_job_blocking, detect_fraud, draw_hollow_rect and     *)
(* post_result.  The HTTP queue, the base64 and image codecs and the       *)
(* forgery detector are the environment: their replies are chosen          *)
(* nondeterministically from the outcomes their interfaces allow.          *)
(***************************************************************************)
EXTENDS Integers, Sequences, FiniteSets, TLC

\* ---------------------------------------------------------------- bounds
ImgW == 3
ImgH == 3
MaxForged == 2
MaxMissing == 1
MaxRequests == 3
MaxDraws == 2

\* ------------------------------------------------------------- constants
\* Duration::from_secs(1)
BackoffSecs == 1

\* ------------------------------------------------------------- data model
\* struct Point / struct Region
Point(x, y) == [x |-> x, y |-> y]
Region(x1, y1, x2, y2) == [start |-> Point(x1, y1), end |-> Point(x2, y2)]

Pixels == (0 .. ImgW - 1) \X (0 .. ImgH - 1)

\* Rgba([255, 0, 0, 255])
red == <<255, 0, 0, 255>>

\* Decoded images (image::DynamicImage) the worker may be handed: an opaque
\* RGB image, an RGB image that already holds red pixels, and an RGBA image
\* with transparent pixels.
BlackRgb == [color |-> "rgb8", px |-> [p \in Pixels |-> <<0, 0, 0>>]]
MixedRgb ==
    [color |-> "rgb8",
     px |-> [p \in Pixels |->
                IF (p[1] + p[2]) % 2 = 0 THEN <<255, 0, 0>> ELSE <<255, 255, 255>>]]
ClearRgba == [color |-> "rgba8", px |-> [p \in Pixels |-> <<0, 0, 0, 0>>]]
Images == {BlackRgb, MixedRgb, ClearRgba}

\* Byte strings: nothing, bytes that are no image, or an image file.
EmptyBytes == [kind |-> "empty"]
JunkBytes == [kind |-> "junk"]
ImageFile(fmt, image) == [kind |-> "image", fmt |-> fmt, image |-> image]

\* general_purpose::STANDARD.encode / decode.  A string is either the base64
\* text of some bytes or text that is not base64 at all.
Base64Encode(bytes) == [b64 |-> TRUE, bytes |-> bytes]
NotBase64 == [b64 |-> FALSE, bytes |-> JunkBytes]
Base64Decode(s) ==
    IF s.b64 THEN [ok |-> TRUE, bytes |-> s.bytes]
    ELSE [ok |-> FALSE, bytes |-> EmptyBytes]

\* String::new(): the empty string, which is the base64 text of no bytes.
EmptyString == Base64Encode(EmptyBytes)

\* image::load_from_memory: the format is detected from the bytes.
load_from_memory(bytes) ==
    IF bytes.kind = "image" THEN [ok |-> TRUE, image |-> bytes.image]
    ELSE [ok |-> FALSE, image |-> BlackRgb]

\* DynamicImage::to_rgba8: an RGB pixel gains an opaque alpha channel.
to_rgba8(image) ==
    [ok |-> TRUE,
     px |-> [p \in Pixels |->
                IF image.color = "rgb8" THEN Append(image.px[p], 255)
                ELSE image.px[p]]]

\* RgbaImage::write_to(.., Png): the bytes of a PNG file of the buffer.
WritePng(image_buffer) ==
    ImageFile("png", [color |-> "rgba8", px |-> image_buffer.px])

\* ------------------------------------------------------- draw_hollow_rect
\* RgbaImage::put_pixel panics when (x, y) is outside the image; a panicked
\* buffer (ok = FALSE) stays panicked.
put_pixel(image, x, y, color) ==
    IF ~image.ok THEN image
    ELSE IF x < ImgW /\ y < ImgH
         THEN [image EXCEPT !.px[<<x, y>>] = color]
         ELSE [image EXCEPT !.ok = FALSE]

\* for x in start.x..=end.x { put_pixel(x, start.y); put_pixel(x, end.y) }
\* The loop ends at end.x, or where a put_pixel panicked.
RECURSIVE DrawRows(_, _, _, _)
DrawRows(image, x, region, color) ==
    IF ~image.ok \/ x > region.end.x THEN image
    ELSE DrawRows(put_pixel(put_pixel(image, x, region.start.y, color),
                            x, region.end.y, color),
                  x + 1, region, color)

\* for y in start.y..=end.y { put_pixel(start.x, y); put_pixel(end.x, y) }
RECURSIVE DrawCols(_, _, _, _)
DrawCols(image, y, region, color) ==
    IF ~image.ok \/ y > region.end.y THEN image
    ELSE DrawCols(put_pixel(put_pixel(image, region.start.x, y, color),
                            region.end.x, y, color),
                  y + 1, region, color)

\* A draw that forgets the second loop (the left and right borders).
draw_rows_only(image, region, color) ==
    DrawRows(image, region.start.x, region, color)

\* A draw whose second loop runs one row past end.y.
draw_hollow_rect_long(image, region, color) ==
    DrawCols(DrawRows(image, region.start.x, region, color),
             region.start.y, [region EXCEPT !.end.y = @ + 1], color)

draw_hollow_rect(image, region, color) ==
    DrawCols(DrawRows(image, region.start.x, region, color),
             region.start.y, region, color)

\* ------------------------------------------------------------ detect_fraud
\* format!("Forged region: from ({}, {}) to ({}, {})\n", ..): a string is the
\* sequence of its pieces, numbers in decimal.
FormatRegion(r) ==
    << "Forged region: from (", ToString(r.start.x), ", ", ToString(r.start.y),
       ") to (", ToString(r.end.x), ", ", ToString(r.end.y), ")", "\n" >>

\* A chain that puts the missing-grid regions first.
ChainMissingFirst(forged, missing) == missing \o forged

\* foreign_grid_areas.forged_regions().iter().chain(missing_grid_areas.forged_regions())
Chain(forged, missing) == forged \o missing

\* A loop that keeps red for the last region and draws the others in blue.
RECURSIVE ForEachRegionTwoColors(_, _, _)
ForEachRegionTwoColors(regions, accumulated, image_buffer) ==
    IF ~image_buffer.ok \/ regions = <<>>
    THEN [accumulated |-> accumulated, image_buffer |-> image_buffer]
    ELSE ForEachRegionTwoColors(
             Tail(regions),
             accumulated \o FormatRegion(Head(regions)),
             draw_hollow_rect(image_buffer, Head(regions),
                              IF Len(regions) = 1 THEN red ELSE <<0, 0, 255, 255>>))

\* for r in forged_regions { accumulated.push_str(..); draw_hollow_rect(..) }
\* The loop ends with the last region, or where draw_hollow_rect panicked.
RECURSIVE ForEachRegion(_, _, _)
ForEachRegion(regions, accumulated, image_buffer) ==
    IF ~image_buffer.ok \/ regions = <<>>
    THEN [accumulated |-> accumulated, image_buffer |-> image_buffer]
    ELSE ForEachRegion(Tail(regions),
                       accumulated \o FormatRegion(Head(regions)),
                       draw_hollow_rect(image_buffer, Head(regions), red))

QueryResult(enc_img_out, text, result) ==
    [enc_img_out |-> enc_img_out, text |-> text, result |-> result]

NoResult == QueryResult(EmptyString, <<>>, "none")

\* What a call of detect_fraud ends in: Ok(QueryResult), Err(message) or a panic.
FraudOk(r) == [tag |-> "Ok", res |-> r, msg |-> <<>>]
FraudErr(msg) == [tag |-> "Err", res |-> NoResult, msg |-> msg]
FraudPanic(msg) == [tag |-> "Panic", res |-> NoResult, msg |-> msg]
FraudNone == [tag |-> "None", res |-> NoResult, msg |-> <<>>]

\* Whether the detector gets to run on the query's image.
Loadable(query) ==
    /\ Base64Decode(query.enc_img_in).ok
    /\ load_from_memory(Base64Decode(query.enc_img_in).bytes).ok

\* A finish that never reports "editcrop".
FinishNoEditcrop(enc_img_in, accumulated, image_buffer, cropped, write_ok) ==
    IF accumulated # <<>>
    THEN IF ~write_ok
         THEN FraudErr(<<"png encoding error">>)
         ELSE FraudOk(QueryResult(Base64Encode(WritePng(image_buffer)),
                                  accumulated, "edited"))
    ELSE IF cropped
    THEN FraudOk(QueryResult(enc_img_in, <<>>, "cropped"))
    ELSE FraudOk(QueryResult(enc_img_in, <<>>, "clean"))

\* A finish that re-encodes the image also when nothing was drawn on it.
FinishAlwaysEncodes(enc_img_in, accumulated, image_buffer, cropped, write_ok) ==
    IF ~write_ok
    THEN FraudErr(<<"png encoding error">>)
    ELSE FraudOk(QueryResult(Base64Encode(WritePng(image_buffer)), accumulated,
                             IF accumulated # <<>>
                             THEN IF cropped THEN "editcrop" ELSE "edited"
                             ELSE IF cropped THEN "cropped" ELSE "clean"))

\* detect_fraud from `if !accumulated.is_empty()` on: the classification, the
\* output image and the text.  write_ok tells whether image_buffer.write_to
\* succeeds; its error is the one failure detect_fraud returns as Err.
Finish(enc_img_in, accumulated, image_buffer, cropped, write_ok) ==
    IF accumulated # <<>>
    THEN IF ~write_ok
         THEN FraudErr(<<"png encoding error">>)
         ELSE FraudOk(QueryResult(Base64Encode(WritePng(image_buffer)),
                                  accumulated,
                                  IF cropped THEN "editcrop" ELSE "edited"))
    ELSE IF cropped
    THEN FraudOk(QueryResult(enc_img_in, <<>>, "cropped"))
    ELSE FraudOk(QueryResult(enc_img_in, <<>>, "clean"))

\* detect_fraud(job_id, query) with the detector's outcome `found` for the loaded
\* image.  The two .expect() and the two .unwrap() panic; so does put_pixel
\* outside the image.
detect_fraud(query, found, write_ok) ==
    LET image_data == Base64Decode(query.enc_img_in)
        loaded == load_from_memory(image_data.bytes)
    IN  IF ~image_data.ok
        THEN FraudPanic(<<"Failed to deserialize base64 enc image">>)
        ELSE IF ~loaded.ok
        THEN FraudPanic(<<"failed to load image">>)
        ELSE IF found.missing.tag # "Some"
        THEN FraudPanic(<<"called unwrap() on ", found.missing.tag>>)
        ELSE
          LET forged_regions == Chain(found.forged, found.missing.regions)
              looped == ForEachRegion(forged_regions, <<>>, to_rgba8(loaded.image))
          IN  IF ~looped.image_buffer.ok
              THEN FraudPanic(<<"Image index out of bounds">>)
              ELSE Finish(query.enc_img_in, looped.accumulated,
                          looped.image_buffer, found.cropped, write_ok)

\* serde_json::to_string(result): a JSON object, fields in declaration order.
to_json(r) ==
    << <<"enc_img_out", r.enc_img_out>>, <<"text", r.text>>,
       <<"result", <<r.result>> >> >>

\* ------------------------------------------------------------ environment
JobIds == {"job-a", "job-b"}

\* The image files a job may carry.
ImageFiles ==
    {ImageFile("png", BlackRgb), ImageFile("jpeg", MixedRgb)}

\* query.enc_img_in of a job: not base64, base64 of no image, or an image.
EncodedInputs ==
    {NotBase64, Base64Encode(JunkBytes)}
        \cup {Base64Encode(f) : f \in ImageFiles}

\* struct Job / ComputeModuleJobV1 / Query
Jobs ==
    [job_id : JobIds, query_type : {"detect"}, query : [enc_img_in : EncodedInputs]]
NoJob ==
    [job_id |-> "", query_type |-> "", query |-> [enc_img_in |-> EmptyString]]

\* Replies to the GET of get_job_blocking: a transport failure, or a response
\* with a status and a body that is a job or does not parse as one.
NoBody == [wellformed |-> FALSE, job |-> NoJob]
GetReplies ==
    {[kind |-> "error", status |-> 0, body |-> NoBody]}
        \cup {[kind |-> "response", status |-> 200,
               body |-> [wellformed |-> TRUE, job |-> j]] : j \in Jobs}
        \cup {[kind |-> "response", status |-> st, body |-> NoBody] :
                 st \in {200, 204, 500}}
NoReply == [kind |-> "none", status |-> 0, body |-> NoBody]

\* Replies to the POST of post_result.
PostReplies ==
    {[kind |-> "error", status |-> 0]}
        \cup {[kind |-> "response", status |-> st] : st \in {204, 500}}
NoPostReply == [kind |-> "none", status |-> 0]

\* Regions the detector reports, all inside the image.
DetectorRegions ==
    {Region(0, 0, ImgW - 1, ImgH - 1), Region(0, 1, 1, 2)}

SeqsUpTo(S, n) == UNION {[1 .. k -> S] : k \in 0 .. n}

\* Zero::from_image(&image).detect_forgeries() and detect_missing_grid_areas():
\* the forged regions, Err / None / Some(missing-grid regions), is_cropped().
DetectorOutcomes ==
    [forged : SeqsUpTo(DetectorRegions, MaxForged),
     missing : {[tag |-> "Err", regions |-> <<>>], [tag |-> "None", regions |-> <<>>]}
                  \cup {[tag |-> "Some", regions |-> m] :
                           m \in SeqsUpTo(DetectorRegions, MaxMissing)},
     cropped : BOOLEAN]
NoOutcome ==
    [forged |-> <<>>, missing |-> [tag |-> "NotRun", regions |-> <<>>],
     cropped |-> FALSE]

\* What can be wrong with the startup inputs read in main before the loop.
StartupDefects ==
    {"DEFAULT_CA_PATH unset", "MODULE_AUTH_TOKEN unset", "token file unreadable",
     "GET_JOB_URI unset", "POST_RESULT_URI unset", "cert file unreadable",
     "cert malformed", "client build failed"}

\* Inputs that main reads without checking: an ill-formed URI is found only by
\* the send() that uses it, which then fails without a request on the wire.
\* So is a token that is no header value, which fails both sends.
LateDefects ==
    {"GET_JOB_URI malformed", "POST_RESULT_URI malformed", "auth token malformed"}

\* ------------------------------------------------------------------ state
VARIABLES
    pc,             \* where the process is
    defect,         \* what is wrong with the startup inputs, or "none"
    response,       \* get_job_blocking: the response being matched
    fetched,        \* main: the value get_job_blocking returned
    job,            \* main: v1, the job of this iteration
    found,          \* detect_fraud: what the detector reported
    outcome,        \* main: the value detect_fraud returned
    posting,        \* post_result: its job_id and result arguments
    sent,           \* the last POST put on the wire: job id of the URI, body
    post_response,  \* post_result: the value send() returned
    requests,       \* number of send() calls of get_job_blocking
    jobs_fetched,   \* number of jobs get_job_blocking returned to main
    post_calls,     \* number of calls of post_result
    post_attempts,  \* number of send() calls of post_result
    slept,          \* seconds main has slept
    before,         \* draw_hollow_rect alone: the image before the call
    image_buffer,   \* draw_hollow_rect alone: its image argument
    region,         \* draw_hollow_rect alone: its region argument
    forged_regions  \* the drawing loop alone: the regions it goes through

mainvars ==
    << pc, defect, response, fetched, job, found, outcome, posting, sent,
       post_response, requests, jobs_fetched, post_calls, post_attempts, slept >>
drawvars == << before, image_buffer, region, forged_regions >>
vars == << mainvars, drawvars >>

NoFetch == [tag |-> "None", job |-> NoJob, err |-> "none"]
NoPosting == [job_id |-> "", result |-> NoResult]
NoSent == [job_id |-> "", body |-> to_json(NoResult)]

Init ==
    /\ pc = "startup"
    /\ defect \in {"none"} \cup StartupDefects \cup LateDefects
    /\ response = NoReply
    /\ fetched = NoFetch
    /\ job = NoJob
    /\ found = NoOutcome
    /\ outcome = FraudNone
    /\ posting = NoPosting
    /\ sent = NoSent
    /\ post_response = NoPostReply
    /\ requests = 0
    /\ jobs_fetched = 0
    /\ post_calls = 0
    /\ post_attempts = 0
    /\ slept = 0
    /\ before = to_rgba8(BlackRgb)
    /\ image_buffer = before
    /\ region = Region(0, 0, 0, 0)
    /\ forged_regions = <<>>

\* A startup that takes the certificate as it is, well-formed or not.
StartupSkipsCertCheck ==
    /\ pc = "startup"
    /\ pc' = IF defect \in StartupDefects \ {"cert malformed"}
             THEN "aborted" ELSE "main_loop"
    /\ UNCHANGED << defect, response, fetched, job, found, outcome, posting, sent,
                    post_response, requests, jobs_fetched, post_calls,
                    post_attempts, slept >>
    /\ UNCHANGED drawvars

\* main, before the loop: every .expect() on a startup input aborts the process.
Startup ==
    /\ pc = "startup"
    /\ pc' = IF defect \in StartupDefects THEN "aborted" ELSE "main_loop"
    /\ UNCHANGED << defect, response, fetched, job, found, outcome, posting, sent,
                    post_response, requests, jobs_fetched, post_calls,
                    post_attempts, slept >>
    /\ UNCHANGED drawvars

\* main: loop { match get_job_blocking(..) -- the call.  The locals of the
\* previous iteration are gone.
CallGetJob ==
    /\ pc = "main_loop"
    /\ pc' = "gj_send"
    /\ response' = NoReply
    /\ fetched' = NoFetch
    /\ job' = NoJob
    /\ found' = NoOutcome
    /\ outcome' = FraudNone
    /\ posting' = NoPosting
    /\ sent' = NoSent
    /\ post_response' = NoPostReply
    /\ UNCHANGED << defect, requests, jobs_fetched, post_calls,
                    post_attempts, slept >>
    /\ UNCHANGED drawvars

\* get_job_blocking: client.get(..).header(..).send()? -- a failed send returns
\* Err to main, a response goes to the match on its status.
GetSend ==
    /\ pc = "gj_send"
    /\ requests < MaxRequests
    /\ requests' = requests + 1
    /\ \E reply \in GetReplies :
          /\ defect \in {"GET_JOB_URI malformed", "auth token malformed"} =>
                reply.kind = "error"
          /\ IF reply.kind = "error"
             THEN /\ fetched' = [tag |-> "Err", job |-> NoJob, err |-> "transport"]
                  /\ response' = NoReply
                  /\ pc' = "main_match"
             ELSE /\ response' = reply
                  /\ fetched' = fetched
                  /\ pc' = "gj_match"
    /\ UNCHANGED << defect, job, found, outcome, posting, sent, post_response,
                    jobs_fetched, post_calls, post_attempts, slept >>
    /\ UNCHANGED drawvars

\* A 200 arm that asks again when the body is no job.
GetStatus200Retries ==
    /\ pc = "gj_match"
    /\ response.status = 200
    /\ fetched' = IF response.body.wellformed
                  THEN [tag |-> "Ok", job |-> response.body.job, err |-> "none"]
                  ELSE fetched
    /\ pc' = IF response.body.wellformed THEN "main_match" ELSE "gj_send"
    /\ UNCHANGED << defect, response, job, found, outcome, posting, sent,
                    post_response, requests, jobs_fetched, post_calls,
                    post_attempts, slept >>
    /\ UNCHANGED drawvars

\* get_job_blocking: 200 => return response.json()
GetStatus200 ==
    /\ pc = "gj_match"
    /\ response.status = 200
    /\ fetched' = IF response.body.wellformed
                  THEN [tag |-> "Ok", job |-> response.body.job, err |-> "none"]
                  ELSE [tag |-> "Err", job |-> NoJob, err |-> "decode"]
    /\ pc' = "main_match"
    /\ UNCHANGED << defect, response, job, found, outcome, posting, sent,
                    post_response, requests, jobs_fetched, post_calls,
                    post_attempts, slept >>
    /\ UNCHANGED drawvars

\* A 204 arm that gives up and reports the empty queue to main as an error.
GetStatus204Returns ==
    /\ pc = "gj_match"
    /\ response.status = 204
    /\ fetched' = [tag |-> "Err", job |-> NoJob, err |-> "no job"]
    /\ pc' = "main_match"
    /\ UNCHANGED << defect, response, job, found, outcome, posting, sent,
                    post_response, requests, jobs_fetched, post_calls,
                    post_attempts, slept >>
    /\ UNCHANGED drawvars

\* get_job_blocking: 204 => debug!(..), and round the loop again
GetStatus204 ==
    /\ pc = "gj_match"
    /\ response.status = 204
    /\ pc' = "gj_send"
    /\ UNCHANGED << defect, response, fetched, job, found, outcome, posting, sent,
                    post_response, requests, jobs_fetched, post_calls,
                    post_attempts, slept >>
    /\ UNCHANGED drawvars

\* A catch-all arm that reports the unexpected status to main as an error.
GetStatusOtherReturns ==
    /\ pc = "gj_match"
    /\ response.status \notin {200, 204}
    /\ fetched' = [tag |-> "Err", job |-> NoJob, err |-> "status"]
    /\ pc' = "main_match"
    /\ UNCHANGED << defect, response, job, found, outcome, posting, sent,
                    post_response, requests, jobs_fetched, post_calls,
                    post_attempts, slept >>
    /\ UNCHANGED drawvars

\* get_job_blocking: _ => error!(..), and round the loop again
GetStatusOther ==
    /\ pc = "gj_match"
    /\ response.status \notin {200, 204}
    /\ pc' = "gj_send"
    /\ UNCHANGED << defect, response, fetched, job, found, outcome, posting, sent,
                    post_response, requests, jobs_fetched, post_calls,
                    post_attempts, slept >>
    /\ UNCHANGED drawvars

\* An Ok arm that already asks for the next job while this one is in hand.
MainOkPrefetches ==
    /\ pc = "main_match"
    /\ fetched.tag = "Ok"
    /\ job' = fetched.job
    /\ jobs_fetched' = jobs_fetched + 1
    /\ requests' = requests + 1
    /\ pc' = "detect"
    /\ UNCHANGED << defect, response, fetched, found, outcome, posting, sent,
                    post_response, post_calls, post_attempts, slept >>
    /\ UNCHANGED drawvars

\* main: Ok(job) => { let v1 = job.compute_module_job_v1; .. }
MainOk ==
    /\ pc = "main_match"
    /\ fetched.tag = "Ok"
    /\ job' = fetched.job
    /\ jobs_fetched' = jobs_fetched + 1
    /\ pc' = "detect"
    /\ UNCHANGED << defect, response, fetched, found, outcome, posting, sent,
                    post_response, requests, post_calls, post_attempts, slept >>
    /\ UNCHANGED drawvars

\* An Err arm that logs and goes round the loop without sleeping.
MainErrNoSleep ==
    /\ pc = "main_match"
    /\ fetched.tag = "Err"
    /\ pc' = "main_loop"
    /\ UNCHANGED << defect, response, fetched, job, found, outcome, posting, sent,
                    post_response, requests, jobs_fetched, post_calls,
                    post_attempts, slept >>
    /\ UNCHANGED drawvars

\* main: Err(err) => { error!(..); sleep(Duration::from_secs(1)); }
MainErr ==
    /\ pc = "main_match"
    /\ fetched.tag = "Err"
    /\ slept' = slept + BackoffSecs
    /\ pc' = "main_loop"
    /\ UNCHANGED << defect, response, fetched, job, found, outcome, posting, sent,
                    post_response, requests, jobs_fetched, post_calls,
                    post_attempts >>
    /\ UNCHANGED drawvars

\* main: match detect_fraud(job_id, v1.query) -- the call.  A panic in it
\* unwinds through main: nothing catches it.
DetectFraud ==
    /\ pc = "detect"
    /\ \E d \in DetectorOutcomes, write_ok \in BOOLEAN :
          LET ran == detect_fraud(job.query, d, write_ok)
          IN  /\ outcome' = ran
              /\ found' = IF Loadable(job.query) THEN d ELSE NoOutcome
              /\ pc' = IF ran.tag = "Panic" THEN "panicked" ELSE "fraud_match"
    /\ UNCHANGED << defect, response, fetched, job, posting, sent, post_response,
                    requests, jobs_fetched, post_calls, post_attempts, slept >>
    /\ UNCHANGED drawvars

\* main: Ok(res) => post_result(&client, &post_result_uri, job_id, &res, ..)
PostOk ==
    /\ pc = "fraud_match"
    /\ outcome.tag = "Ok"
    /\ posting' = [job_id |-> job.job_id, result |-> outcome.res]
    /\ post_calls' = post_calls + 1
    /\ pc' = "post_send"
    /\ UNCHANGED << defect, response, fetched, job, found, outcome, sent,
                    post_response, requests, jobs_fetched, post_attempts, slept >>
    /\ UNCHANGED drawvars

\* main: Err(err) => post_result(.., job_id, &QueryResult { enc_img_out:
\* String::new(), text: err.to_string(), result: String::from("Failed") }, ..)
PostFailed ==
    /\ pc = "fraud_match"
    /\ outcome.tag = "Err"
    /\ posting' = [job_id |-> job.job_id,
                   result |-> QueryResult(EmptyString, outcome.msg, "Failed")]
    /\ post_calls' = post_calls + 1
    /\ pc' = "post_send"
    /\ UNCHANGED << defect, response, fetched, job, found, outcome, sent,
                    post_response, requests, jobs_fetched, post_attempts, slept >>
    /\ UNCHANGED drawvars

\* A post_result whose URI ends in the job's query type, not its id.
PostSendQueryType ==
    /\ pc = "post_send"
    /\ post_attempts' = post_attempts + 1
    /\ \E reply \in PostReplies :
          /\ defect \in {"POST_RESULT_URI malformed", "auth token malformed"} =>
                reply.kind = "error"
          /\ post_response' = reply
    /\ sent' = IF defect \in {"POST_RESULT_URI malformed", "auth token malformed"}
               THEN sent
               ELSE [job_id |-> job.query_type, body |-> to_json(posting.result)]
    /\ pc' = "post_match"
    /\ UNCHANGED << defect, response, fetched, job, found, outcome, posting,
                    requests, jobs_fetched, post_calls, slept >>
    /\ UNCHANGED drawvars

\* post_result: client.post(format!("{}/{}", post_result_uri, job_id))
\*     .body(serde_json::to_string(result).expect(..)).send()
PostSend ==
    /\ pc = "post_send"
    /\ post_attempts' = post_attempts + 1
    /\ \E reply \in PostReplies :
          /\ defect \in {"POST_RESULT_URI malformed", "auth token malformed"} =>
                reply.kind = "error"
          /\ post_response' = reply
    /\ sent' = IF defect \in {"POST_RESULT_URI malformed", "auth token malformed"}
               THEN sent
               ELSE [job_id |-> posting.job_id, body |-> to_json(posting.result)]
    /\ pc' = "post_match"
    /\ UNCHANGED << defect, response, fetched, job, found, outcome, posting,
                    requests, jobs_fetched, post_calls, slept >>
    /\ UNCHANGED drawvars

\* A post_result after which the worker backs off when the post failed.
PostMatchSleeps ==
    /\ pc = "post_match"
    /\ pc' = "main_loop"
    /\ slept' = IF post_response.kind = "response" /\ post_response.status = 204
                THEN slept ELSE slept + BackoffSecs
    /\ UNCHANGED << defect, response, fetched, job, found, outcome, posting, sent,
                    post_response, requests, jobs_fetched, post_calls,
                    post_attempts >>
    /\ UNCHANGED drawvars

\* A post_result that sends again when the post was not answered with 204.
PostMatchRetries ==
    /\ pc = "post_match"
    /\ pc' = IF post_response.kind = "response" /\ post_response.status = 204
             THEN "main_loop" ELSE "post_send"
    /\ UNCHANGED << defect, response, fetched, job, found, outcome, posting, sent,
                    post_response, requests, jobs_fetched, post_calls,
                    post_attempts, slept >>
    /\ UNCHANGED drawvars

\* post_result: match response { .. } -- every arm only logs; the function
\* returns and main goes round its loop.
PostMatch ==
    /\ pc = "post_match"
    /\ pc' = "main_loop"
    /\ UNCHANGED << defect, response, fetched, job, found, outcome, posting, sent,
                    post_response, requests, jobs_fetched, post_calls,
                    post_attempts, slept >>
    /\ UNCHANGED drawvars

Next ==
    \/ Startup
    \/ CallGetJob
    \/ GetSend
    \/ GetStatus200
    \/ GetStatus204
    \/ GetStatusOther
    \/ MainOk
    \/ MainErr
    \/ DetectFraud
    \/ PostOk
    \/ PostFailed
    \/ PostSend
    \/ PostMatch

Spec == Init /\ [][Next]_vars

\* ------------------------------------------- draw_hollow_rect on its own
\* Every region over coordinates up to one past the image: inside or outside
\* it, start before or after end.
AllRegions ==
    {Region(x1, y1, x2, y2) : x1 \in 0 .. ImgW, y1 \in 0 .. ImgH,
                              x2 \in 0 .. ImgW, y2 \in 0 .. ImgH}

InitDraw ==
    /\ pc = "draw_call"
    /\ defect = "none"
    /\ response = NoReply
    /\ fetched = NoFetch
    /\ job = NoJob
    /\ found = NoOutcome
    /\ outcome = FraudNone
    /\ posting = NoPosting
    /\ sent = NoSent
    /\ post_response = NoPostReply
    /\ requests = 0
    /\ jobs_fetched = 0
    /\ post_calls = 0
    /\ post_attempts = 0
    /\ slept = 0
    /\ before \in {to_rgba8(i) : i \in Images}
    /\ image_buffer = before
    /\ region \in AllRegions
    /\ forged_regions = <<>>

\* draw_hollow_rect(&mut image_buffer, &region, red)
DrawHollowRect ==
    /\ pc = "draw_call"
    /\ image_buffer' = draw_hollow_rect(image_buffer, region, red)
    /\ pc' = "draw_done"
    /\ UNCHANGED << defect, response, fetched, job, found, outcome, posting, sent,
                    post_response, requests, jobs_fetched, post_calls,
                    post_attempts, slept, before, region, forged_regions >>

NextDraw == DrawHollowRect

SpecDraw == InitDraw /\ [][NextDraw]_vars

\* ------------------------------------------- the drawing loop on its own
\* Regions inside the image with start <= end, their corners on the first,
\* the second and the last column and row.
AnnotateRegions ==
    {Region(x1, y1, x2, y2) :
        x1 \in {0, 1, ImgW - 1}, y1 \in {0, 1, ImgH - 1},
        x2 \in {0, 1, ImgW - 1}, y2 \in {0, 1, ImgH - 1}}
        \cap {r \in AllRegions : r.start.x <= r.end.x /\ r.start.y <= r.end.y}

InitAnnotate ==
    /\ pc = "annotate_call"
    /\ defect = "none"
    /\ response = NoReply
    /\ fetched = NoFetch
    /\ job = NoJob
    /\ found = NoOutcome
    /\ outcome = FraudNone
    /\ posting = NoPosting
    /\ sent = NoSent
    /\ post_response = NoPostReply
    /\ requests = 0
    /\ jobs_fetched = 0
    /\ post_calls = 0
    /\ post_attempts = 0
    /\ slept = 0
    /\ before \in {to_rgba8(i) : i \in Images}
    /\ image_buffer = before
    /\ region = Region(0, 0, 0, 0)
    /\ forged_regions \in SeqsUpTo(AnnotateRegions, MaxDraws)

\* let mut image_buffer = image.to_rgba8(); for r in forged_regions { .. }
Annotate ==
    /\ pc = "annotate_call"
    /\ image_buffer' = ForEachRegion(forged_regions, <<>>, image_buffer).image_buffer
    /\ pc' = "annotate_done"
    /\ UNCHANGED << defect, response, fetched, job, found, outcome, posting, sent,
                    post_response, requests, jobs_fetched, post_calls,
                    post_attempts, slept, before, region, forged_regions >>

NextAnnotate == Annotate

SpecAnnotate == InitAnnotate /\ [][NextAnnotate]_vars

\* ------------------------------------------------------------ properties
\* The regions the detector reported, in the order the spec merges them.
MergedRegions == found.forged \o found.missing.regions

\* C1: every job that get_job_blocking returned has had exactly one
\* post_result call by the time main is anywhere but between the fetch and
\* that call -- never none, never more than one -- whatever stage of
\* detect_fraud failed.
C1_EveryJobPostedOnce ==
    /\ post_calls <= jobs_fetched
    /\ jobs_fetched <= post_calls + 1
    /\ pc \notin {"detect", "fraud_match"} => post_calls = jobs_fetched

\* C2: a failure of any processing step does not crash the process, and the
\* result posted for the job is {enc_img_out: "", text: the message,
\* result: "Failed"}.
C2_FailureIsPostedAsFailed ==
    /\ outcome.tag # "Panic"
    /\ outcome.tag = "Err" /\ pc \in {"post_send", "post_match"}
          => posting.result = QueryResult(EmptyString, outcome.msg, "Failed")

\* C3: once the main loop is entered it never ends: while requests remain
\* within the bound the process always has a next step to take.
C3_LoopNeverTerminates ==
    pc \notin {"startup", "aborted"} /\ requests < MaxRequests => ENABLED Next

\* C4: a successful run classifies by the four-way table on (merged region
\* sequence empty?, is_cropped) and produces no other value.
C4_FourWayTable ==
    outcome.tag = "Ok" =>
        outcome.res.result =
            IF MergedRegions # <<>>
            THEN IF found.cropped THEN "editcrop" ELSE "edited"
            ELSE IF found.cropped THEN "cropped" ELSE "clean"

C4_Witness ==
    /\ pc = "post_match"
    /\ found.forged = <<>>
    /\ Len(found.missing.regions) = 1
    /\ found.cropped
    /\ posting.result.result = "editcrop"

\* C5: when the merged region sequence is empty, the result's enc_img_out is
\* the job's enc_img_in as it came and its text is the empty string.
C5_EmptyPassesInputThrough ==
    outcome.tag \in {"Ok", "Err"} /\ MergedRegions = <<>> =>
        /\ outcome.tag = "Ok"
        /\ outcome.res.enc_img_out = job.query.enc_img_in
        /\ outcome.res.text = <<>>
        /\ pc = "post_match" /\ post_response.kind = "response" =>
              sent.body = to_json(QueryResult(job.query.enc_img_in, <<>>,
                                              outcome.res.result))

C5_Witness ==
    /\ pc = "post_match"
    /\ post_response.kind = "response"
    /\ MergedRegions = <<>>
    /\ found.cropped
    /\ job.query.enc_img_in = Base64Encode(ImageFile("jpeg", MixedRgb))
    /\ sent.body[1][2] = job.query.enc_img_in

\* C6: a 204 yields no job and does not return to main: the next step of
\* get_job_blocking is the next request, and nothing sleeps in between.
C6_NoJobNoSleepOn204 ==
    [][ /\ pc = "gj_match" /\ response.status = 204 =>
              /\ pc' = "gj_send"
              /\ fetched' = NoFetch
              /\ jobs_fetched' = jobs_fetched
              /\ slept' = slept
        /\ pc = "gj_send" /\ response.status = 204 =>
              /\ requests' = requests + 1
              /\ slept' = slept ]_vars

C6_Witness ==
    /\ pc = "gj_send"
    /\ response.status = 204
    /\ requests = 2
    /\ jobs_fetched = 0
    /\ slept = 0

\* C7: a failed send of the job request is not retried in get_job_blocking but
\* returned to main, which posts nothing, sleeps one second and starts a new
\* iteration; the process does not exit.
C7_TransportFailureBacksOff ==
    [][ /\ pc = "gj_send" =>
              \/ pc' = "gj_match" /\ response'.kind = "response" /\ fetched' = fetched
              \/ /\ pc' = "main_match"
                 /\ fetched' = [tag |-> "Err", job |-> NoJob, err |-> "transport"]
        /\ pc = "main_match" /\ fetched.tag = "Err" /\ fetched.err = "transport" =>
              /\ pc' = "main_loop"
              /\ slept' = slept + 1
              /\ post_calls' = post_calls
              /\ post_attempts' = post_attempts
              /\ requests' = requests
        /\ pc = "main_loop" => pc' = "gj_send" ]_vars

C7_Witness ==
    /\ pc = "main_loop"
    /\ fetched.tag = "Err"
    /\ fetched.err = "transport"
    /\ slept = 1
    /\ post_calls = 0

\* C8: post_result sends one POST per call and returns to main whatever the
\* answer; main then goes round its loop.
C8_OnePostAttemptPerCall ==
    /\ [](post_attempts = IF pc = "post_send" THEN post_calls - 1 ELSE post_calls)
    /\ [][ /\ pc = "post_send" =>
                 pc' = "post_match" /\ post_attempts' = post_attempts + 1
           /\ pc = "post_match" =>
                 /\ pc' = "main_loop"
                 /\ post_attempts' = post_attempts
                 /\ post_calls' = post_calls
                 /\ slept' = slept ]_vars

C8_Witness ==
    /\ pc = "main_loop"
    /\ post_response.kind = "error"
    /\ post_calls = 1
    /\ post_attempts = 1

\* The lines of a text: it is cut after every "\n".
RECURSIVE SplitLines(_, _)
SplitLines(text, line) ==
    IF text = <<>> THEN (IF line = <<>> THEN <<>> ELSE <<line>>)
    ELSE IF Head(text) = "\n"
         THEN <<Append(line, "\n")>> \o SplitLines(Tail(text), <<>>)
         ELSE SplitLines(Tail(text), Append(line, Head(text)))

\* C9: the text of a result is one line "Forged region: from (x1, y1) to
\* (x2, y2)\n" per region, forged regions first and missing-grid regions
\* after them, each list in its own order, and nothing else.
C9_OneLinePerRegionInMergeOrder ==
    outcome.tag = "Ok" =>
        LET lines == SplitLines(outcome.res.text, <<>>)
        IN  /\ Len(lines) = Len(found.forged) + Len(found.missing.regions)
            /\ \A i \in 1 .. Len(lines) :
                  LET r == IF i <= Len(found.forged) THEN found.forged[i]
                           ELSE found.missing.regions[i - Len(found.forged)]
                  IN  lines[i] =
                        << "Forged region: from (", ToString(r.start.x), ", ",
                           ToString(r.start.y), ") to (", ToString(r.end.x), ", ",
                           ToString(r.end.y), ")", "\n" >>

C9_Witness ==
    /\ outcome.tag = "Ok"
    /\ found.forged = <<Region(0, 1, 1, 2), Region(0, 0, ImgW - 1, ImgH - 1)>>
    /\ found.missing.regions = <<Region(0, 1, 1, 2)>>
    /\ Len(SplitLines(outcome.res.text, <<>>)) = 3

\* C10: for a region inside the image with start <= end, draw_hollow_rect
\* leaves opaque red on every pixel of the rectangle's four edges, corners
\* included, and leaves every pixel strictly inside it as it was.
C10_BorderRedInteriorKept ==
    /\ pc = "draw_done"
    /\ region.start.x <= region.end.x /\ region.end.x < ImgW
    /\ region.start.y <= region.end.y /\ region.end.y < ImgH
    => /\ image_buffer.ok
       /\ \A p \in Pixels :
             LET inx == region.start.x <= p[1] /\ p[1] <= region.end.x
                 iny == region.start.y <= p[2] /\ p[2] <= region.end.y
                 edgex == p[1] \in {region.start.x, region.end.x}
                 edgey == p[2] \in {region.start.y, region.end.y}
             IN  /\ inx /\ iny /\ (edgex \/ edgey) =>
                       image_buffer.px[p] = <<255, 0, 0, 255>>
                 /\ inx /\ iny /\ ~edgex /\ ~edgey =>
                       image_buffer.px[p] = before.px[p]

C10_Witness ==
    /\ pc = "draw_done"
    /\ region = Region(0, 0, 2, 2)
    /\ image_buffer.px[<<1, 1>>] = <<0, 0, 0, 0>>
    /\ image_buffer.px[<<2, 0>>] = <<255, 0, 0, 255>>
    /\ image_buffer.px[<<0, 1>>] = <<255, 0, 0, 255>>

\* C11: when the missing-grid analysis reports that nothing is available
\* (None), the job fails through the error path, not a panic: detect_fraud
\* returns Err, the forged regions alone are not used, and main posts a
\* Failed result for the job.
C11_NullMissingGridIsAnError ==
    found.missing.tag = "None" =>
        /\ outcome.tag = "Err"
        /\ pc # "panicked"
        /\ pc \in {"post_send", "post_match"} => posting.result.result = "Failed"

\* C12 as claimed: main sleeps only after a transport failure of the job
\* request -- not after a 204, another status, a 200 response or a post.
C12_SleepOnlyAfterTransportFailure ==
    [][ slept' # slept =>
            pc = "main_match" /\ fetched.tag = "Err" /\ fetched.err = "transport"
      ]_vars

\* C12 as amended: main sleeps, one second, only after get_job_blocking
\* returned an error, which is a transport failure of the job request or a 200
\* response whose body is no job; it does not sleep after a 204, another
\* status, a 200 response carrying a job, or a post.
C12_SleepOnlyAfterFetchError ==
    [][ slept' # slept =>
            /\ pc = "main_match"
            /\ fetched.tag = "Err"
            /\ slept' = slept + 1
            /\ \/ fetched.err = "transport" /\ response = NoReply
               \/ /\ fetched.err = "decode"
                  /\ response.status = 200
                  /\ ~response.body.wellformed
      ]_vars

C12_Witness ==
    /\ pc = "main_loop"
    /\ slept = 1
    /\ fetched.err = "decode"
    /\ response.status = 200
    /\ post_calls = 0

\* C13: a 200 response whose body is no well-formed job makes
\* get_job_blocking return a deserialization error to main without asking
\* again; no job comes of it and nothing is posted for it.
C13_MalformedBodyIsReturnedAsError ==
    [][ /\ pc = "gj_match" /\ response.status = 200 /\ ~response.body.wellformed =>
              /\ pc' = "main_match"
              /\ fetched' = [tag |-> "Err", job |-> NoJob, err |-> "decode"]
              /\ requests' = requests
              /\ jobs_fetched' = jobs_fetched
        /\ pc = "main_match" /\ fetched.err = "decode" =>
              /\ pc' = "main_loop"
              /\ job' = NoJob
              /\ jobs_fetched' = jobs_fetched
              /\ post_calls' = post_calls
              /\ post_attempts' = post_attempts
              /\ requests' = requests ]_vars

C13_Witness ==
    /\ pc = "main_loop"
    /\ fetched = [tag |-> "Err", job |-> NoJob, err |-> "decode"]
    /\ requests = 1
    /\ jobs_fetched = 0
    /\ post_calls = 0

\* C14: a status other than 200 and 204 yields no job and is not reported to
\* main: get_job_blocking asks again at once, without a sleep, and it returns
\* only on a 200 or on a failed send.
C14_OtherStatusIsRetriedAtOnce ==
    [][ /\ pc = "gj_match" /\ response.status \notin {200, 204} =>
              /\ pc' = "gj_send"
              /\ fetched' = NoFetch
              /\ jobs_fetched' = jobs_fetched
              /\ slept' = slept
        /\ pc = "gj_send" /\ response.status \notin {0, 200, 204} =>
              /\ requests' = requests + 1
              /\ slept' = slept
        /\ pc \in {"gj_send", "gj_match"} /\ pc' \notin {"gj_send", "gj_match"} =>
              /\ pc' = "main_match"
              /\ \/ pc = "gj_match" /\ response.status = 200
                 \/ pc = "gj_send" /\ fetched'.err = "transport" ]_vars

C14_Witness ==
    /\ pc = "gj_send"
    /\ response.kind = "response"
    /\ response.status = 500
    /\ requests = 2
    /\ jobs_fetched = 0
    /\ slept = 0

\* C15: jobs are handled one at a time: at most one fetched job is without
\* its post_result call, a request for a job is sent only when none is, and
\* fetches and posts alternate -- the k-th post follows the k-th fetch and
\* carries that job's id.
C15_OneJobAtATime ==
    /\ [](jobs_fetched - post_calls \in {0, 1})
    /\ [][ /\ requests' # requests =>
                 /\ pc = "gj_send"
                 /\ post_calls = jobs_fetched
                 /\ post_attempts = post_calls
           /\ jobs_fetched' # jobs_fetched =>
                 /\ jobs_fetched' = jobs_fetched + 1
                 /\ post_calls = jobs_fetched
           /\ post_calls' # post_calls =>
                 /\ post_calls' = jobs_fetched
                 /\ post_calls' = post_calls + 1
                 /\ posting'.job_id = job.job_id ]_vars

C15_Witness ==
    /\ pc = "main_loop"
    /\ jobs_fetched = 2
    /\ post_calls = 2
    /\ post_attempts = 2
    /\ requests = 2

\* C16 as claimed: whatever startup input is missing, unreadable or malformed,
\* the process aborts before the main loop: it sends no request for a job and
\* no post.
C16_AnyBadStartupInputAborts ==
    defect # "none" =>
        /\ pc \in {"startup", "aborted"}
        /\ requests = 0
        /\ post_attempts = 0

\* C16 as amended: when an environment variable is unset, the token file or
\* the certificate file cannot be read, the certificate is malformed or the
\* client cannot be built, the process aborts before the main loop and sends
\* nothing.  (An ill-formed URL or token is not looked at during startup.)
C16_CheckedStartupInputAborts ==
    defect \in StartupDefects =>
        /\ pc \in {"startup", "aborted"}
        /\ requests = 0
        /\ jobs_fetched = 0
        /\ post_calls = 0
        /\ post_attempts = 0
        /\ sent = NoSent

C16_Witness ==
    /\ pc = "aborted"
    /\ defect = "cert malformed"
    /\ requests = 0
    /\ post_attempts = 0

\* C17: a post is made under the id of the job fetched last, and what it
\* carries is the result detect_fraud computed from that job's query, or the
\* Failed result for that job.
C17_PostIsForTheJobInHand ==
    pc \in {"post_send", "post_match"} =>
        /\ job = response.body.job
        /\ job = fetched.job
        /\ posting.job_id = job.job_id
        /\ \E write_ok \in BOOLEAN : outcome = detect_fraud(job.query, found, write_ok)
        /\ \/ outcome.tag = "Ok" /\ posting.result = outcome.res
           \/ /\ outcome.tag = "Err"
              /\ posting.result = QueryResult(EmptyString, outcome.msg, "Failed")
        /\ pc = "post_match" /\ post_response.kind = "response" =>
              sent = [job_id |-> job.job_id, body |-> to_json(posting.result)]

C17_Witness ==
    /\ pc = "post_match"
    /\ post_response.kind = "response"
    /\ jobs_fetched = 2
    /\ job.job_id = "job-b"
    /\ sent.job_id = "job-b"
    /\ outcome.tag = "Ok"
    /\ sent.body = to_json(outcome.res)

\* Whether pixel p lies on one of the four edges of region r.
OnBorder(p, r) ==
    /\ r.start.x <= p[1] /\ p[1] <= r.end.x
    /\ r.start.y <= p[2] /\ p[2] <= r.end.y
    /\ p[1] \in {r.start.x, r.end.x} \/ p[2] \in {r.start.y, r.end.y}

\* C18: drawing changes border pixels only: after the loop has drawn its
\* regions (each inside the image, start <= end), every pixel that is on no
\* region's border -- so every pixel outside all the rectangles, and every
\* pixel strictly inside one -- is the pixel of the RGBA copy of the input.
C18_OnlyBordersChange ==
    pc = "annotate_done" =>
        /\ image_buffer.ok
        /\ \A p \in Pixels :
              (\A i \in 1 .. Len(forged_regions) : ~OnBorder(p, forged_regions[i]))
                  => image_buffer.px[p] = before.px[p]

C18_Witness ==
    /\ pc = "annotate_done"
    /\ forged_regions = <<Region(0, 0, 1, 1), Region(1, 1, ImgW - 1, ImgH - 1)>>
    /\ before = to_rgba8(BlackRgb)
    /\ image_buffer.px[<<ImgW - 1, 0>>] = <<0, 0, 0, 255>>
    /\ image_buffer.px[<<0, 0>>] = <<255, 0, 0, 255>>
    /\ image_buffer.px[<<ImgW - 1, ImgH - 1>>] = <<255, 0, 0, 255>>

\* The image the loop leaves when it goes through regions s from `before`.
Drawn(s) == ForEachRegion(s, <<>>, before).image_buffer

\* C19: the final image does not depend on the order of the regions, and
\* drawing a region once more changes nothing, also where rectangles overlap.
C19_OrderFreeAndIdempotent ==
    pc = "annotate_done" =>
        LET n == Len(forged_regions)
        IN  /\ \A f \in [1 .. n -> 1 .. n] :
                  (\A i, j \in 1 .. n : f[i] = f[j] => i = j)
                      => Drawn([i \in 1 .. n |-> forged_regions[f[i]]]) = image_buffer
            /\ \A i \in 1 .. n :
                  /\ Drawn(Append(forged_regions, forged_regions[i])) = image_buffer
                  /\ Drawn(<<forged_regions[i]>> \o forged_regions) = image_buffer

C19_Witness ==
    /\ pc = "annotate_done"
    /\ forged_regions = <<Region(0, 0, 1, 1), Region(1, 1, ImgW - 1, ImgH - 1)>>
    /\ before = to_rgba8(MixedRgb)
    /\ image_buffer.px[<<1, 1>>] = <<255, 0, 0, 255>>
    /\ image_buffer =
          Drawn(<<Region(1, 1, ImgW - 1, ImgH - 1), Region(0, 0, 1, 1)>>)

====
